---- MODULE Spec2Model ----
(***************************************************************************)
(* Model of the zygisk entry component (native/src/zygisk/main.cpp):       *)
(*   - the environment sanitizer (sanitize_environment_variables),         *)
(*   - app_process_main (pool-manager branch and passthrough branch),      *)
(*   - the passthrough helper (zygisk_main "passthrough"),                 *)
(*   - the companion daemon (zygiskd).                                     *)
(* C strings are sequences of one-character strings; CharAt reads the      *)
(* terminating NUL one past the last character, as the C code does.        *)
(***************************************************************************)
EXTENDS Integers, Sequences, FiniteSets, TLC

VARIABLES
    environ,   \* the process's environment block: array of entries ending in NULL
    env0,      \* harness: the environment block the process was entered with
    once,      \* harness: the block after the first sanitizer application
    calls,     \* harness: number of sanitizer applications so far
    p,         \* the process running app_process_main
    h,         \* the forked helper (fork_dont_care, then zygisk_main "passthrough")
    ch,        \* the socketpair between them: bytes queued towards fds[0]
    d,         \* the companion daemon: zygiskd's main thread and its process
    ctl,       \* magiskd's end of the daemon's control connection
    cl,        \* the clients magiskd hands to the daemon, by arrival number
    tasks      \* the tasks exec_task was given, by client

vars == <<environ, env0, once, calls, p, h, ch, d, ctl, cl, tasks>>

appVars == <<environ, env0, once, calls, p, h, ch>>
dVars == <<d, ctl, cl, tasks>>

Idle == [pc |-> "none"]

-----------------------------------------------------------------------------
(* C strings and the environment array *)

NUL == "NUL"
NULL == <<"nullptr">>

CharAt(s, i) == IF i < Len(s) THEN s[i + 1] ELSE NUL

Range(s) == {s[i] : i \in 1..Len(s)}

RECURSIVE FirstNull(_, _)
FirstNull(arr, i) ==
    IF i > Len(arr) THEN i
    ELSE IF arr[i] = NULL THEN i
    ELSE FirstNull(arr, i + 1)

\* the entries of a block: what a reader of environ sees, up to the sentinel
Record(arr) == SubSeq(arr, 1, FirstNull(arr, 1) - 1)

-----------------------------------------------------------------------------
(* is_valid_environment_variable, main.cpp:16-49 *)

MAX_ENV_LEN == 32 * 4096

RECURSIVE valid_scan(_, _, _)
valid_scan(name, pos, first_equal_pos) ==
    IF pos < MAX_ENV_LEN /\ CharAt(name, pos) # NUL
    THEN valid_scan(name, pos + 1,
                    IF CharAt(name, pos) = "=" /\ first_equal_pos < 0
                    THEN pos ELSE first_equal_pos)
    ELSE <<pos, first_equal_pos>>

is_valid_environment_variable(name) ==
    IF name = NULL THEN FALSE
    ELSE LET r == valid_scan(name, 0, -1) IN
         IF r[1] >= MAX_ENV_LEN THEN FALSE
         ELSE IF r[2] < 1 THEN FALSE
         ELSE TRUE

-----------------------------------------------------------------------------
(* env_match, main.cpp:51-63: index of the value in envstr, or -1 (nullptr) *)

RECURSIVE match_scan(_, _, _)
match_scan(envstr, name, i) ==
    IF CharAt(envstr, i) = CharAt(name, i) /\ CharAt(name, i) # NUL
    THEN match_scan(envstr, name, i + 1)
    ELSE i

env_match_prefix(envstr, name) ==
    LET i == match_scan(envstr, name, 0) IN
    IF CharAt(name, i) = NUL THEN i + 1 ELSE -1

env_match(envstr, name) ==
    LET i == match_scan(envstr, name, 0) IN
    IF CharAt(name, i) = NUL /\ CharAt(envstr, i) = "=" THEN i + 1 ELSE -1

-----------------------------------------------------------------------------
(* is_unsafe_environment_variable, main.cpp:65-111 *)

UNSAFE_VARIABLE_NAMES ==
  << <<"A","N","D","R","O","I","D","_","D","N","S","_","M","O","D","E">>,
     <<"G","C","O","N","V","_","P","A","T","H">>,
     <<"G","E","T","C","O","N","F","_","D","I","R">>,
     <<"H","O","S","T","A","L","I","A","S","E","S">>,
     <<"J","E","_","M","A","L","L","O","C","_","C","O","N","F">>,
     <<"L","D","_","A","O","U","T","_","L","I","B","R","A","R","Y","_","P","A","T","H">>,
     <<"L","D","_","A","O","U","T","_","P","R","E","L","O","A","D">>,
     <<"L","D","_","A","U","D","I","T">>,
     <<"L","D","_","C","O","N","F","I","G","_","F","I","L","E">>,
     <<"L","D","_","D","E","B","U","G">>,
     <<"L","D","_","D","E","B","U","G","_","O","U","T","P","U","T">>,
     <<"L","D","_","D","Y","N","A","M","I","C","_","W","E","A","K">>,
     <<"L","D","_","L","I","B","R","A","R","Y","_","P","A","T","H">>,
     <<"L","D","_","O","R","I","G","I","N","_","P","A","T","H">>,
     <<"L","D","_","P","R","O","F","I","L","E">>,
     <<"L","D","_","S","H","O","W","_","A","U","X","V">>,
     <<"L","D","_","U","S","E","_","L","O","A","D","_","B","I","A","S">>,
     <<"L","I","B","C","_","D","E","B","U","G","_","M","A","L","L","O","C","_","O","P","T","I","O","N","S">>,
     <<"L","I","B","C","_","H","O","O","K","S","_","E","N","A","B","L","E">>,
     <<"L","O","C","A","L","D","O","M","A","I","N">>,
     <<"L","O","C","P","A","T","H">>,
     <<"M","A","L","L","O","C","_","C","H","E","C","K","_">>,
     <<"M","A","L","L","O","C","_","C","O","N","F">>,
     <<"M","A","L","L","O","C","_","T","R","A","C","E">>,
     <<"N","I","S","_","P","A","T","H">>,
     <<"N","L","S","P","A","T","H">>,
     <<"R","E","S","O","L","V","_","H","O","S","T","_","C","O","N","F">>,
     <<"R","E","S","_","O","P","T","I","O","N","S">>,
     <<"S","C","U","D","O","_","O","P","T","I","O","N","S">>,
     <<"T","M","P","D","I","R">>,
     <<"T","Z","D","I","R">> >>

RECURSIVE unsafe_loop(_, _)
unsafe_loop(name, k) ==
    IF k > Len(UNSAFE_VARIABLE_NAMES) THEN FALSE
    ELSE IF env_match(name, UNSAFE_VARIABLE_NAMES[k]) # -1 THEN TRUE
    ELSE unsafe_loop(name, k + 1)

is_unsafe_environment_variable(name) == unsafe_loop(name, 1)

-----------------------------------------------------------------------------
(* sanitize_environment_variables, main.cpp:113-128.  src and dst are the  *)
(* two cursors into the same array (1-based here).                         *)

RECURSIVE sanitize_loop_skip(_, _, _, _)
sanitize_loop_skip(env, src, dst, unchecked) ==
    IF env[src] = NULL THEN [env EXCEPT ![dst] = NULL]
    ELSE IF ~unchecked /\ ~is_valid_environment_variable(env[src])
    THEN sanitize_loop_skip(env, src + 1, dst, TRUE)
    ELSE IF ~unchecked /\ is_unsafe_environment_variable(env[src])
    THEN sanitize_loop_skip(env, src + 1, dst, TRUE)
    ELSE sanitize_loop_skip([env EXCEPT ![dst] = env[src]], src + 1, dst + 1, FALSE)

\* faulty variant: the entry after a removed one is copied without being examined
sanitize_loop_unchecked_next(env, src, dst) == sanitize_loop_skip(env, src, dst, FALSE)

RECURSIVE sanitize_loop_stop(_, _, _)
\* faulty variant: the loop stops at the first removed entry instead of continuing
sanitize_loop_stop(env, src, dst) ==
    IF env[src] = NULL THEN [env EXCEPT ![dst] = NULL]
    ELSE IF ~is_valid_environment_variable(env[src])
    THEN [env EXCEPT ![dst] = NULL]
    ELSE IF is_unsafe_environment_variable(env[src])
    THEN [env EXCEPT ![dst] = NULL]
    ELSE sanitize_loop_stop([env EXCEPT ![dst] = env[src]], src + 1, dst + 1)

RECURSIVE sanitize_loop(_, _, _)
sanitize_loop(env, src, dst) ==
    IF env[src] = NULL THEN [env EXCEPT ![dst] = NULL]
    ELSE IF ~is_valid_environment_variable(env[src])
    THEN sanitize_loop(env, src + 1, dst)
    ELSE IF is_unsafe_environment_variable(env[src])
    THEN sanitize_loop(env, src + 1, dst)
    ELSE sanitize_loop([env EXCEPT ![dst] = env[src]], src + 1, dst + 1)

sanitize_environment_variables(env) == sanitize_loop(env, 1, 1)

-----------------------------------------------------------------------------
(* Environment blocks the sanitizer is run on *)

MaxEnvLen == 3

Lower(c) ==
    CASE c = "A" -> "a" [] c = "B" -> "b" [] c = "C" -> "c" [] c = "D" -> "d"
      [] c = "E" -> "e" [] c = "F" -> "f" [] c = "G" -> "g" [] c = "H" -> "h"
      [] c = "I" -> "i" [] c = "J" -> "j" [] c = "K" -> "k" [] c = "L" -> "l"
      [] c = "M" -> "m" [] c = "N" -> "n" [] c = "O" -> "o" [] c = "P" -> "p"
      [] c = "Q" -> "q" [] c = "R" -> "r" [] c = "S" -> "s" [] c = "T" -> "t"
      [] c = "U" -> "u" [] c = "V" -> "v" [] c = "W" -> "w" [] c = "X" -> "x"
      [] c = "Y" -> "y" [] c = "Z" -> "z" [] OTHER -> c

LowerStr(s) == [i \in 1..Len(s) |-> Lower(s[i])]

\* entries built around one deny-listed name dn
EntriesAround(dn) ==
    { dn \o <<"=", "1", "=">>,                   \* deny-listed, with a value
      dn \o <<"=">>,                             \* deny-listed, empty value
      dn,                                        \* no '=' at all
      <<"=">> \o dn \o <<"=">>,                  \* first '=' at index 0
      dn \o <<"O", "=", "1">>,                   \* deny-listed name as a strict prefix
      SubSeq(dn, 1, Len(dn) - 1) \o <<"=", "1">>, \* strict prefix of a deny-listed name
      LowerStr(dn) \o <<"=", "1">> }             \* differs in case only

SeqsUpTo(S, n) == UNION {[1..m -> S] : m \in 0..n}

SanInit ==
    /\ \E k \in 1..Len(UNSAFE_VARIABLE_NAMES) :
         \E rec \in SeqsUpTo(EntriesAround(UNSAFE_VARIABLE_NAMES[k]), MaxEnvLen) :
            environ = rec \o <<NULL>>
    /\ env0 = environ
    /\ once = environ
    /\ calls = 0
    /\ p = Idle /\ h = Idle /\ ch = << >>
    /\ d = Idle /\ ctl = << >> /\ cl = << >> /\ tasks = << >>

\* one application of the sanitizer to the process's block
Sanitize ==
    /\ calls < 2
    /\ environ' = sanitize_environment_variables(environ)
    /\ once' = IF calls = 0 THEN environ' ELSE once
    /\ calls' = calls + 1
    /\ UNCHANGED <<dVars, env0, p, h, ch>>

SanNext == Sanitize

SpecSan == SanInit /\ [][SanNext]_vars

-----------------------------------------------------------------------------
(* libc's view of the environment block: getenv and setenv(.., overwrite=1) *)

EnvHasName(e, name) ==
    /\ Len(e) > Len(name)
    /\ SubSeq(e, 1, Len(name)) = name
    /\ e[Len(name) + 1] = "="

EnvIndex(env, name) ==
    LET hits == {i \in 1..Len(Record(env)) : EnvHasName(env[i], name)} IN
    IF hits = {} THEN 0 ELSE CHOOSE i \in hits : \A j \in hits : i <= j

\* the value of the first entry called name, or NULL
getenv(env, name) ==
    IF EnvIndex(env, name) = 0 THEN NULL
    ELSE SubSeq(env[EnvIndex(env, name)], Len(name) + 2, Len(env[EnvIndex(env, name)]))

setenv(env, name, value) ==
    IF EnvIndex(env, name) = 0
    THEN Record(env) \o <<name \o <<"=">> \o value, NULL>>
    ELSE [env EXCEPT ![EnvIndex(env, name)] = name \o <<"=">> \o value]

-----------------------------------------------------------------------------
(* Descriptor tables: descriptor number -> the open file it names.  A file  *)
(* is a tuple: its kind, then what tells it from others of its kind.       *)

MaxModules == 2
MaxClients == 2

FdNums == 0..(4 + MaxModules + 2 * MaxClients)
CLOSED == <<"closed">>

StdFds == [n \in FdNums |-> IF n <= 2 THEN <<"tty">> ELSE CLOSED]

LowestFree(fdt) == CHOOSE n \in FdNums : fdt[n] = CLOSED /\ \A m \in FdNums : fdt[m] = CLOSED => n <= m

Holds(fdt, file) == \E n \in FdNums : fdt[n] = file

\* close(fd): a descriptor number that names nothing is left alone (EBADF)
CloseFd(fdt, fd) == IF fd \in FdNums THEN [fdt EXCEPT ![fd] = CLOSED] ELSE fdt

-----------------------------------------------------------------------------
(* Constants of app_process_main and of the protocol with magiskd *)

LD_PRELOAD == <<"L","D","_","P","R","E","L","O","A","D">>
HIJACK_BIN == <<"/","s","y","s","t","e","m","/","b","i","n","/","a","p","p","w","i","d","g","e","t">>
MAGISKTMP_ENV == <<"M","A","G","I","S","K","T","M","P">>
ZYGOTE_CON == "u:r:zygote:s0"
INIT_CON == "u:r:init:s0"
SELF_EXE == <<"/proc/self/exe -> app_process">>

\* what magiskd may pass as the target binary
TargetFiles == {<<"app_process.orig">>, <<"app_process.other">>}
NOFILE == <<"nofile">>

\* private runtime directory paths magiskd may send (read_string gives "" on failure)
RuntimePaths == { <<"/","d","a","t","a","/","x">>, << >> }

\* read_int: the integer the peer wrote, -1 when nothing can be read
StatusValues == {0, 1, -1}

MaxAppEnv == 2

AppEntries ==
    { LD_PRELOAD \o <<"=","/","a">>,
      LD_PRELOAD \o <<"=">>,
      <<"L","D","_","L","I","B","R","A","R","Y","_","P","A","T","H","=","/","l">>,
      <<"T","M","P","D","I","R">>,
      MAGISKTMP_ENV \o <<"=","/","o">> }

Argvs == { <<"app_process">>, <<"app_process", "--zygote">>, <<"app_process", "--zygote64">> }

Labels == { ZYGOTE_CON, "u:r:shell:s0" }

AppInit ==
    /\ environ \in {rec \o <<NULL>> : rec \in SeqsUpTo(AppEntries, MaxAppEnv)}
    /\ env0 = environ
    /\ once = environ
    /\ calls = 0
    /\ \E se \in BOOLEAN, av \in Argvs, rd \in BOOLEAN, lb \in Labels, lp \in BOOLEAN, ov \in BOOLEAN :
         p = [ pc |-> "classify",
               selinux |-> se,          \* selinux_enabled()
               argv |-> av,
               attrReadable |-> rd,     \* /proc/self/attr/current can be opened
               con |-> lb,              \* this process's security-context label
               con0 |-> lb,
               lp64 |-> lp,             \* __LP64__ build
               overlay |-> ov,          \* an overlay is mounted on /proc/self/exe
               zygote |-> FALSE,
               fdt |-> StdFds,
               fds0 |-> -1,             \* fds[0] of the socketpair
               fds1 |-> -1,             \* fds[1] of the socketpair
               socket |-> -1,           \* zygisk_request's result
               status |-> -1,           \* read_int's result
               app_proc_fd |-> -1,
               sent |-> NOFILE,         \* the file behind the descriptor the peer passed
               tmp |-> << >>,
               closes |-> 0,            \* close(socket) calls on the SETUP connection
               forks |-> 0,
               tries |-> << >>,         \* image replacements attempted, in order
               steps |-> << >>,         \* the steps taken, in order
               ret |-> -1 ]             \* app_process_main's return value, once returned
    /\ h = Idle
    /\ ch = << >>
    /\ d = Idle /\ ctl = << >> /\ cl = << >> /\ tasks = << >>

Step(l) == Append(p.steps, l)

Did(l) == l \in Range(p.steps)

TrySanitized(call, file, ok) ==
    Append(p.tries, [call |-> call, file |-> file, argv |-> p.argv,
                     env |-> Record(sanitize_environment_variables(environ)),
                     con |-> p.con, ok |-> ok])

\* an image replacement: on success the process is gone, on failure the call returns
Try(call, file, ok) ==
    Append(p.tries, [call |-> call, file |-> file, argv |-> p.argv,
                     env |-> Record(environ), con |-> p.con, ok |-> ok])

Replaced == Len(p.tries) > 0 /\ p.tries[Len(p.tries)].ok

Image == IF Replaced THEN p.tries[Len(p.tries)].file ELSE <<"overlay">>

-----------------------------------------------------------------------------
(* app_process_main, main.cpp:131-225 *)

\* 135-146: is this the pool manager?
Classify ==
    /\ p.pc = "classify"
    /\ LET z == IF ~p.selinux THEN "--zygote" \in Range(p.argv)
                ELSE IF p.attrReadable THEN p.con = ZYGOTE_CON
                ELSE FALSE
       IN p' = [p EXCEPT !.zygote = z,
                         !.pc = IF z THEN "z_request" ELSE "np_fork",
                         !.steps = Step("classify")]
    /\ UNCHANGED <<dVars, environ, env0, once, calls, h, ch>>

(* ---- pool-manager branch, 185-218 ---- *)

\* 185: zygisk_request(SETUP) connects to magiskd and sends the request
ZRequest ==
    /\ p.pc = "z_request"
    /\ \E ok \in BOOLEAN :
         p' = IF ok
              THEN [p EXCEPT !.socket = LowestFree(p.fdt),
                             !.fdt = [p.fdt EXCEPT ![LowestFree(p.fdt)] = <<"setup_sock">>],
                             !.pc = "z_status", !.steps = Step("request")]
              ELSE [p EXCEPT !.socket = -1, !.pc = "fallback", !.steps = Step("request")]
    /\ UNCHANGED <<dVars, environ, env0, once, calls, h, ch>>

SetupRefusedNever(v) == FALSE

\* 187: if (read_int(socket) != 0) break;
SetupRefused(v) == v # 0

ZReadStatus ==
    /\ p.pc = "z_status"
    /\ \E v \in StatusValues :
         p' = [p EXCEPT !.status = v,
                        !.pc = IF SetupRefused(v) THEN "z_close2" ELSE "z_send",
                        !.steps = Step("read_status")]
    /\ UNCHANGED <<dVars, environ, env0, once, calls, h, ch>>

\* 191-192: the loader is written to magiskd
ZSendLoader ==
    /\ p.pc = "z_send"
    /\ p' = [p EXCEPT !.pc = "z_recvfd", !.steps = Step("send_loader")]
    /\ UNCHANGED <<dVars, environ, env0, once, calls, h, ch>>

\* 195 and 176: if (app_proc_fd < 0)
RecvFailed(fd) == fd < 0

\* 194-196: recv_fd(socket)
ZRecvFd ==
    /\ p.pc = "z_recvfd"
    /\ \E f \in TargetFiles \cup {NOFILE} :
         LET fd == IF f = NOFILE THEN -1 ELSE LowestFree(p.fdt) IN
         p' = [p EXCEPT !.app_proc_fd = fd,
                        !.sent = f,
                        !.fdt = IF f = NOFILE THEN p.fdt ELSE [p.fdt EXCEPT ![fd] = f],
                        !.pc = IF RecvFailed(fd) THEN "z_close2" ELSE "z_readstr",
                        !.steps = Step("recv_fd")]
    /\ UNCHANGED <<dVars, environ, env0, once, calls, h, ch>>

\* 198: read_string(socket)
ZReadString ==
    /\ p.pc = "z_readstr"
    /\ \E path \in RuntimePaths :
         p' = [p EXCEPT !.tmp = path, !.pc = "z_setenv", !.steps = Step("read_string")]
    /\ UNCHANGED <<dVars, environ, env0, once, calls, h, ch>>

\* faulty variant: LD_PRELOAD is overwritten with the hijack path alone
PreloadValueOverwrite(env) == HIJACK_BIN

\* 199-206: the value LD_PRELOAD is set to
PreloadValue(env) ==
    IF getenv(env, LD_PRELOAD) # NULL
    THEN getenv(env, LD_PRELOAD) \o <<":">> \o HIJACK_BIN
    ELSE HIJACK_BIN

\* 199-207
ZSetenv ==
    /\ p.pc = "z_setenv"
    /\ environ' = setenv(setenv(environ, LD_PRELOAD, PreloadValue(environ)),
                         MAGISKTMP_ENV, p.tmp)
    /\ p' = [p EXCEPT !.pc = "z_close", !.steps = Step("setenv")]
    /\ UNCHANGED <<dVars, env0, once, calls, h, ch>>

\* 209: close(socket)
ZClose ==
    /\ p.pc = "z_close"
    /\ p' = [p EXCEPT !.fdt = CloseFd(p.fdt, p.socket),
                      !.closes = p.closes + 1,
                      !.pc = "z_setcon", !.steps = Step("close_socket")]
    /\ UNCHANGED <<dVars, environ, env0, once, calls, h, ch>>

ZSetContextThenExec ==
    /\ p.pc = "z_setcon"
    /\ p' = [p EXCEPT !.con = INIT_CON, !.pc = "z_exec", !.steps = Step("set_context")]
    /\ UNCHANGED <<dVars, environ, env0, once, calls, h, ch>>

\* 211-212: close-on-exec on the target, then the label is written to
\* /proc/self/attr/current.  The file may fail to open (fprintf on a null
\* FILE* aborts the process) and the kernel may refuse the write.
ZSetContext ==
    /\ p.pc = "z_setcon"
    /\ \E r \in {"written", "refused", "noopen"} :
         p' = CASE r = "written" -> [p EXCEPT !.con = INIT_CON, !.pc = "z_sanitize",
                                              !.steps = Step("set_context")]
                [] r = "refused" -> [p EXCEPT !.pc = "z_sanitize",
                                              !.steps = Step("set_context")]
                [] r = "noopen"  -> [p EXCEPT !.pc = "aborted",
                                              !.steps = Step("set_context")]
    /\ UNCHANGED <<dVars, environ, env0, once, calls, h, ch>>

\* 213
ZSanitize ==
    /\ p.pc = "z_sanitize"
    /\ environ' = sanitize_environment_variables(environ)
    /\ calls' = calls + 1
    /\ p' = [p EXCEPT !.pc = "z_exec", !.steps = Step("sanitize")]
    /\ UNCHANGED <<dVars, env0, once, h, ch>>

\* 214: fexecve(app_proc_fd, argv, environ) returns only when it fails
ZExec ==
    /\ p.pc = "z_exec"
    /\ \E ok \in BOOLEAN :
         p' = [p EXCEPT !.tries = Try("fexecve", p.fdt[p.app_proc_fd], ok),
                        !.pc = IF ok THEN "replaced" ELSE "z_close2",
                        !.steps = Step("fexecve")]
    /\ UNCHANGED <<dVars, environ, env0, once, calls, h, ch>>

\* 217: close(socket), reached by every break and by a failed fexecve
ZClose2 ==
    /\ p.pc = "z_close2"
    /\ p' = [p EXCEPT !.fdt = CloseFd(p.fdt, p.socket),
                      !.closes = p.closes + 1,
                      !.pc = "fallback", !.steps = Step("close_socket")]
    /\ UNCHANGED <<dVars, environ, env0, once, calls, h, ch>>

\* 220-224: detach the overlay and execute the original app_process
Fallback ==
    /\ p.pc = "fallback"
    /\ \E ok \in BOOLEAN :
         p' = [p EXCEPT !.overlay = FALSE,
                        !.tries = Try("execve", SELF_EXE, ok),
                        !.ret = IF ok THEN p.ret ELSE 1,
                        !.pc = IF ok THEN "replaced" ELSE "returned",
                        !.steps = Step("self_exec")]
    /\ UNCHANGED <<dVars, environ, env0, once, calls, h, ch>>

(* ---- branch for a process that is not the pool manager, 148-183 ---- *)

IntMsg(v) == [kind |-> "int", val |-> v, file |-> NOFILE]
FdMsg(f) == [kind |-> "fd", val |-> 0, file |-> f]

HelperAlive == h.pc \notin {"none", "dead"}

\* fds[0] reads end-of-file once nothing is queued and no process holds fds[1]
Disconnected ==
    /\ ch = << >>
    /\ ~Holds(p.fdt, <<"sp1">>)
    /\ ~(HelperAlive /\ Holds(h.fdt, <<"sp1">>))

\* 156-168: socketpair(SOCK_CLOEXEC), then fork_dont_care(); the child keeps
\* fds[1] across its exec and is to become `magisk zygisk passthrough <fd> <bits>`
NpFork ==
    /\ p.pc = "np_fork"
    /\ LET f0 == LowestFree(p.fdt)
           t0 == [p.fdt EXCEPT ![f0] = <<"sp0">>]
           f1 == LowestFree(t0)
           t1 == [t0 EXCEPT ![f1] = <<"sp1">>]
       IN /\ p' = [p EXCEPT !.fds0 = f0, !.fds1 = f1, !.fdt = t1,
                            !.forks = p.forks + 1,
                            !.pc = "np_close1", !.steps = Step("fork")]
          /\ \E ok \in BOOLEAN :
               h' = IF ok
                    THEN [ pc |-> "execlp",
                           fdt |-> t1,
                           argv |-> <<"", "zygisk", "passthrough", f1, IF p.lp64 THEN 1 ELSE 0>>,
                           client |-> -1,
                           is_64_bit |-> -1,
                           magiskd |-> -1,
                           status |-> -1,
                           real_app_fd |-> -1,
                           got |-> NOFILE,      \* the file magiskd passed
                           sent |-> << >>,      \* written to magiskd
                           wrote |-> << >> ]    \* written to the client, in order
                    ELSE h
    /\ UNCHANGED <<dVars, environ, env0, once, calls, ch>>

\* 170
NpCloseFds1 ==
    /\ p.pc = "np_close1"
    /\ p' = [p EXCEPT !.fdt = CloseFd(p.fdt, p.fds1),
                      !.pc = "np_read", !.steps = Step("close_fds1")]
    /\ UNCHANGED <<dVars, environ, env0, once, calls, h, ch>>

ParentRefusedNever(v) == FALSE

\* 171: if (read_int(fds[0]) != 0)
ParentRefused(v) == v # 0

\* 171-174: blocks until the helper has written or is gone
NpReadStatus ==
    /\ p.pc = "np_read"
    /\ ch # << >> \/ Disconnected
    /\ LET v == IF ch # << >> /\ Head(ch).kind = "int" THEN Head(ch).val ELSE -1 IN
       p' = [p EXCEPT !.status = v,
                      !.ret = IF ParentRefused(v) THEN 1 ELSE p.ret,
                      !.pc = IF ParentRefused(v) THEN "returned" ELSE "np_recv",
                      !.steps = Step("read_status")]
    /\ ch' = IF ch # << >> THEN Tail(ch) ELSE ch
    /\ UNCHANGED <<dVars, environ, env0, once, calls, h>>

\* 175-177: recv_fd(fds[0])
NpRecvFd ==
    /\ p.pc = "np_recv"
    /\ ch # << >> \/ Disconnected
    /\ LET f  == IF ch # << >> /\ Head(ch).kind = "fd" THEN Head(ch).file ELSE NOFILE
           fd == IF f = NOFILE THEN -1 ELSE LowestFree(p.fdt)
       IN p' = [p EXCEPT !.app_proc_fd = fd,
                         !.sent = f,
                         !.fdt = IF f = NOFILE THEN p.fdt ELSE [p.fdt EXCEPT ![fd] = f],
                         !.ret = IF RecvFailed(fd) THEN 1 ELSE p.ret,
                         !.pc = IF RecvFailed(fd) THEN "returned" ELSE "np_exec",
                         !.steps = Step("recv_fd")]
    /\ ch' = IF ch # << >> THEN Tail(ch) ELSE ch
    /\ UNCHANGED <<dVars, environ, env0, once, calls, h>>

\* 178-182: close(fds[0]), close-on-exec, fexecve(app_proc_fd, argv, environ)
NpExec ==
    /\ p.pc = "np_exec"
    /\ \E ok \in BOOLEAN :
         p' = [p EXCEPT !.fdt = CloseFd(p.fdt, p.fds0),
                        !.tries = Try("fexecve", p.fdt[p.app_proc_fd], ok),
                        !.ret = IF ok THEN p.ret ELSE 1,
                        !.pc = IF ok THEN "replaced" ELSE "returned",
                        !.steps = Step("fexecve")]
    /\ UNCHANGED <<dVars, environ, env0, once, calls, h, ch>>

-----------------------------------------------------------------------------
(* The helper: the forked child (158-168), then zygisk_main "passthrough", *)
(* main.cpp:303-330                                                        *)

\* the child's descriptors after a successful exec: close-on-exec ones are gone
AfterExec(fdt) == [n \in FdNums |-> IF fdt[n] = <<"sp0">> THEN CLOSED ELSE fdt[n]]

NoFds == [n \in FdNums |-> CLOSED]

\* write to the client descriptor; it reaches fds[0] when client names fds[1]
ToClient(msg) ==
    /\ ch' = IF h.client \in FdNums /\ h.fdt[h.client] = <<"sp1">> THEN Append(ch, msg) ELSE ch
    /\ h' = [h EXCEPT !.wrote = Append(h.wrote, msg), !.pc = "exit"]

\* 160-167: execlp("magisk", ...), and exit(-1) when it fails
HExeclp ==
    /\ h.pc = "execlp"
    /\ \E ok \in BOOLEAN :
         h' = IF ok THEN [h EXCEPT !.fdt = AfterExec(h.fdt), !.pc = "main"]
              ELSE [h EXCEPT !.fdt = NoFds, !.pc = "dead"]
    /\ UNCHANGED <<dVars, environ, env0, once, calls, p, ch>>

\* 308-312: the arguments are parsed and the client descriptor is probed
HMain ==
    /\ h.pc = "main"
    /\ Len(h.argv) = 5 /\ h.argv[3] = "passthrough"
    /\ h' = [h EXCEPT !.client = h.argv[4],
                      !.is_64_bit = h.argv[5],
                      !.pc = IF h.argv[4] \in FdNums /\ h.fdt[h.argv[4]] # CLOSED
                             THEN "connect" ELSE "exit"]
    /\ UNCHANGED <<dVars, environ, env0, once, calls, p, ch>>

\* 313-315 and 325-327: connect_daemon(ZYGISK_PASSTHROUGH)
HConnect ==
    /\ h.pc = "connect"
    /\ \/ /\ h' = [h EXCEPT !.magiskd = LowestFree(h.fdt),
                            !.fdt = [h.fdt EXCEPT ![LowestFree(h.fdt)] = <<"pt_sock">>],
                            !.sent = <<"PASSTHROUGH", h.is_64_bit>>,
                            !.pc = "status"]
          /\ UNCHANGED ch
       \/ ToClient(IntMsg(1))
    /\ UNCHANGED <<dVars, environ, env0, once, calls, p>>

HelperRefusedNever(v) == FALSE

\* 317: if (read_int(magiskd) != 0)
HelperRefused(v) == v # 0

\* 317-322: magiskd's status is read and answered to the client
HReadStatus ==
    /\ h.pc = "status"
    /\ \E v \in StatusValues :
         IF HelperRefused(v)
         THEN /\ ch' = Append(ch, IntMsg(1))
              /\ h' = [h EXCEPT !.status = v, !.wrote = Append(h.wrote, IntMsg(1)),
                                !.pc = "exit"]
         ELSE /\ ch' = Append(ch, IntMsg(0))
              /\ h' = [h EXCEPT !.status = v, !.wrote = Append(h.wrote, IntMsg(0)),
                                !.pc = "recv"]
    /\ UNCHANGED <<dVars, environ, env0, once, calls, p>>

\* 323: recv_fd(magiskd)
HRecvFd ==
    /\ h.pc = "recv"
    /\ \E f \in TargetFiles \cup {NOFILE} :
         LET fd == IF f = NOFILE THEN -1 ELSE LowestFree(h.fdt) IN
         h' = [h EXCEPT !.real_app_fd = fd,
                        !.got = f,
                        !.fdt = IF f = NOFILE THEN h.fdt ELSE [h.fdt EXCEPT ![fd] = f],
                        !.pc = "send"]
    /\ UNCHANGED <<dVars, environ, env0, once, calls, p, ch>>

\* 324: send_fd(client, real_app_fd); a negative descriptor passes nothing
HSendFd ==
    /\ h.pc = "send"
    /\ ToClient(FdMsg(IF h.real_app_fd \in FdNums THEN h.fdt[h.real_app_fd] ELSE NOFILE))
    /\ UNCHANGED <<dVars, environ, env0, once, calls, p>>

\* 312, 319, 327, 330: zygisk_main returns and the helper process ends
HExit ==
    /\ h.pc = "exit"
    /\ h' = [h EXCEPT !.fdt = NoFds, !.pc = "dead"]
    /\ UNCHANGED <<dVars, environ, env0, once, calls, p, ch>>

AppNext ==
    \/ Classify
    \/ NpFork \/ NpCloseFds1 \/ NpReadStatus \/ NpRecvFd \/ NpExec
    \/ HExeclp \/ HMain \/ HConnect \/ HReadStatus \/ HRecvFd \/ HSendFd \/ HExit
    \/ ZRequest \/ ZReadStatus \/ ZSendLoader \/ ZRecvFd \/ ZReadString \/ ZSetenv
    \/ ZClose \/ ZSetContext \/ ZSanitize \/ ZExec \/ ZClose2
    \/ Fallback

SpecApp == AppInit /\ [][AppNext]_vars

-----------------------------------------------------------------------------
(* The companion daemon, zygiskd, main.cpp:227-299.                        *)
(*                                                                         *)
(* All threads of the daemon share one descriptor table, d.fdt.  A client  *)
(* connection is the file <<"conn", c>>; fstat's st_dev and st_ino of a    *)
(* descriptor are the file it names, and every connection is a new file.   *)
(* Module code is taken to touch no descriptor of another client.          *)

ModuleKinds == {"ok", "notreg", "dlfail", "nosym"}

\* module ids a client may write; read_int gives -1 when the client is gone
ModuleIds == (0 - 1)..MaxModules

Tty == <<"tty">>
Ctl == <<"ctl">>
Conn(c) == <<"conn", c>>
ModFile(i, kind) == <<"module", i, kind>>

Clients == 1..MaxClients

NoTask == [pc |-> "none"]

DInit ==
    /\ environ = <<NULL>> /\ env0 = <<NULL>> /\ once = <<NULL>> /\ calls = 0
    /\ p = Idle /\ h = Idle /\ ch = << >>
    /\ \E uid \in {0, 2000}, open \in BOOLEAN :
         d = [ pc |-> "auth",
               uid |-> uid,                 \* getuid()
               socket |-> 3,                \* parse_int(argv[2])
               fdt |-> [n \in FdNums |-> IF n <= 2 THEN Tty
                                         ELSE IF n = 3 /\ open THEN Ctl ELSE CLOSED],
               module_fds |-> << >>,
               modules |-> << >>,           \* the registry: entry points, 0 is nullptr
               client |-> 0 - 1,
               revents |-> {},              \* pfd.revents, while the loop looks at it
               misclosed |-> 0,             \* close(client) calls of the daemon that hit
                                            \* anything but that client's own connection
               code |-> "running" ]
    /\ \E batch \in SeqsUpTo(ModuleKinds, MaxModules) :
         ctl = [ batch |-> batch,           \* the module files magiskd passes at startup
                 q |-> << >>,               \* client connections passed, not yet received
                 hup |-> FALSE,             \* magiskd closed the connection
                 acks |-> << >> ]           \* what the daemon wrote to magiskd
    /\ cl = [c \in Clients |-> [state |-> "unsent"]]
    /\ tasks = [c \in Clients |-> NoTask]

Running == d.pc \notin {"none", "exited"}

\* exit(): the process is gone, with its descriptors and its threads
Exit(code) == [d EXCEPT !.pc = "exited", !.code = code, !.revents = {},
                        !.fdt = [n \in FdNums |-> CLOSED], !.client = 0 - 1]

Killed == [c \in Clients |-> IF tasks[c].pc \in {"none", "done"} THEN tasks[c]
                             ELSE [pc |-> "killed"]]

RECURSIVE InstallReversed(_, _, _)
InstallReversed(fdt, files, fds) ==
    IF files = << >> THEN <<fdt, fds>>
    ELSE InstallReversed([fdt EXCEPT ![LowestFree(fdt)] = Head(files)], Tail(files),
                         <<LowestFree(fdt)>> \o fds)

\* a run of descriptors for a batch of passed files, lowest free numbers first
RECURSIVE Install(_, _, _)
Install(fdt, files, fds) ==
    IF files = << >> THEN <<fdt, fds>>
    ELSE Install([fdt EXCEPT ![LowestFree(fdt)] = Head(files)], Tail(files),
                 Append(fds, LowestFree(fdt)))

UnauthorizedUidOnly(uid, fdt, socket) == uid # 0

\* 228: getuid() != 0 || fcntl(socket, F_GETFD) < 0
Unauthorized(uid, fdt, socket) == uid # 0 \/ fdt[socket] = CLOSED

\* 228-229
DAuth ==
    /\ d.pc = "auth"
    /\ d' = IF Unauthorized(d.uid, d.fdt, d.socket) THEN Exit("exit(-1)")
            ELSE [d EXCEPT !.pc = "recv_fds"]
    /\ UNCHANGED <<appVars, ctl, cl, tasks>>

\* 243: recv_fds(socket); an empty vector when the receive fails
DRecvFds ==
    /\ d.pc = "recv_fds"
    /\ \E ok \in BOOLEAN :
         LET files == IF ok THEN [i \in 1..Len(ctl.batch) |-> ModFile(i, ctl.batch[i])]
                      ELSE << >>
             r == Install(d.fdt, files, << >>)
         IN d' = [d EXCEPT !.fdt = r[1], !.module_fds = r[2], !.pc = "load"]
    /\ ctl' = [ctl EXCEPT !.batch = << >>]
    /\ UNCHANGED <<appVars, cl, tasks>>

LoadEntryUnresolved(file) ==
    IF file[1] = "module" /\ file[3] # "notreg" THEN file[2] ELSE 0

\* 245-257: the entry point of the module behind fd, 0 for nullptr
LoadEntry(file) ==
    IF file[1] = "module" /\ file[3] # "notreg"            \* fstat and S_ISREG
    THEN IF file[3] # "dlfail"                             \* android_dlopen_ext
         THEN IF file[3] = "nosym" THEN 0 ELSE file[2]     \* dlsym
         ELSE 0
    ELSE 0

\* 244-260: one turn of the loop over module_fds
DLoadModule ==
    /\ d.pc = "load"
    /\ Len(d.modules) < Len(d.module_fds)
    /\ LET fd == d.module_fds[Len(d.modules) + 1] IN
       d' = [d EXCEPT !.modules = Append(d.modules, LoadEntry(d.fdt[fd])),
                      !.fdt = CloseFd(d.fdt, fd)]
    /\ UNCHANGED <<appVars, ctl, cl, tasks>>

\* 261-267: module_fds goes out of scope, the acknowledgment is written
DAck ==
    /\ d.pc = "load"
    /\ Len(d.modules) = Len(d.module_fds)
    /\ d' = [d EXCEPT !.module_fds = << >>, !.pc = "poll"]
    /\ ctl' = [ctl EXCEPT !.acks = Append(ctl.acks, 0)]
    /\ UNCHANGED <<appVars, cl, tasks>>

(* ---- magiskd and the clients ---- *)

\* magiskd, having read the acknowledgment, passes the next client's connection
\* while the loop waits in poll or is held in read_int; the client will let the
\* daemon read a module id (-1 is also what read_int gives when the client
\* closes without writing), or stay silent
MagiskdSendClient ==
    /\ d.pc \in {"poll", "read_id"} /\ ~ctl.hup /\ ctl.q = << >>
    /\ \E c \in Clients :
         /\ cl[c].state = "unsent"
         /\ \A b \in Clients : b < c => cl[b].state # "unsent"
         /\ \E w \in {"writes", "silent"}, v \in ModuleIds :
              /\ (w = "silent") => v = 0 - 1
              /\ cl' = [cl EXCEPT ![c] = [ state |-> "sent", does |-> w, val |-> v,
                                           fd |-> 0 - 1,
                                           closes |-> 0,     \* closes of this connection
                                           ntasks |-> 0,     \* tasks created for it
                                           calls |-> << >> ]] \* entry-point invocations
         /\ ctl' = [ctl EXCEPT !.q = Append(ctl.q, c)]
    /\ UNCHANGED <<appVars, d, tasks>>

\* magiskd closes the control connection, or dies, while the loop is held in
\* read_int by a client that stays silent
MagiskdHangup ==
    /\ d.pc = "read_id" /\ cl[d.fdt[d.client][2]].does = "silent"
    /\ ~ctl.hup
    /\ ctl' = [ctl EXCEPT !.hup = TRUE]
    /\ UNCHANGED <<appVars, d, cl, tasks>>

(* ---- the service loop, 268-298 ---- *)

LostNever(revents) == FALSE

\* 270: pfd.revents && !(pfd.revents & POLLIN)
Lost(revents) == revents # {} /\ "POLLIN" \notin revents

\* 269-273: poll(&pfd, 1, -1) returns with a client's connection to receive
DPollIn ==
    /\ d.pc = "poll"
    /\ ctl.q # << >>
    /\ d' = [d EXCEPT !.revents = {"POLLIN"}, !.pc = "recv_fd"]
    /\ UNCHANGED <<appVars, ctl, cl, tasks>>

\* 269-273: poll returns because magiskd has closed the connection or died (now,
\* or before the loop got here).  The hang-up is reported with POLLIN, and
\* recv_fd is tried, or without it, and the daemon exits at once.
DPollHup ==
    /\ d.pc = "poll"
    /\ ctl.q = << >>
    /\ ctl' = [ctl EXCEPT !.hup = TRUE]
    /\ \E r \in {{"POLLIN", "POLLHUP"}, {"POLLHUP"}, {"POLLERR"}} :
         /\ d' = IF Lost(r) THEN Exit("exit(0)")
                 ELSE [d EXCEPT !.revents = r, !.pc = "recv_fd"]
         /\ tasks' = IF Lost(r) THEN Killed ELSE tasks
    /\ UNCHANGED <<appVars, cl>>

\* 274-278: recv_fd(socket); it fails when nothing was passed, and it can fail
\* for want of a free descriptor, which drops the connection passed
DRecvClient ==
    /\ d.pc = "recv_fd"
    /\ \E ok \in BOOLEAN :
         IF ok /\ ctl.q # << >>
         THEN LET c == Head(ctl.q)
                  fd == LowestFree(d.fdt)
              IN /\ d' = [d EXCEPT !.client = fd, !.fdt = [d.fdt EXCEPT ![fd] = Conn(c)],
                                   !.revents = {}, !.pc = "read_id"]
                 /\ cl' = [cl EXCEPT ![c].state = "received", ![c].fd = fd]
                 /\ tasks' = tasks
         ELSE /\ d' = Exit("exit(0)")
              /\ cl' = IF ctl.q # << >> THEN [cl EXCEPT ![Head(ctl.q)].state = "dropped"]
                       ELSE cl
              /\ tasks' = Killed
    /\ ctl' = [ctl EXCEPT !.q = IF ctl.q # << >> THEN Tail(ctl.q) ELSE ctl.q]
    /\ UNCHANGED appVars

\* the client behind a descriptor of the daemon
ClientOf(fd) == d.fdt[fd][2]

DispatchableAnySlot(modules, module_id) ==
    module_id >= 0 /\ module_id < Len(modules)

\* 280: module_id >= 0 && module_id < modules.size() && modules[module_id]
Dispatchable(modules, module_id) ==
    module_id >= 0 /\ module_id < Len(modules) /\ modules[module_id + 1] # 0

EntryOfFirst(modules, module_id) == modules[1]

\* 281: entry = modules[module_id]
EntryOf(modules, module_id) == modules[module_id + 1]

\* close() by the daemon's own code on behalf of client c: the descriptor number
\* is released whatever it names
DaemonClose(fdt, fd) == CloseFd(fdt, fd)

Closed(c, file) == IF file = Conn(c) THEN 1 ELSE 0

\* the clients' close counts after a close of a descriptor that names file
CountClose(file) ==
    [c \in Clients |-> IF cl[c].state # "unsent" /\ file = Conn(c)
                       THEN [cl[c] EXCEPT !.closes = cl[c].closes + 1]
                       ELSE cl[c]]

Active(t) == t.pc \in {"queued", "stat1", "entry", "returned", "stat2"}

PoolAdmitsWhenIdle(ts) == \A c \in Clients : ~Active(ts[c])

\* 281: exec_task hands the task to a thread of the pool and returns; it waits
\* for no task that is running
PoolAdmits(ts) == TRUE

\* 279-297: read_int(client) blocks until the client has written or is gone;
\* then the client is dispatched to a task or closed
DServe ==
    /\ d.pc = "read_id"
    /\ LET c == ClientOf(d.client)
           module_id == cl[c].val
       IN /\ cl[c].does # "silent"
          /\ IF Dispatchable(d.modules, module_id)
             THEN /\ PoolAdmits(tasks)
                  /\ tasks' = [tasks EXCEPT ![c] =
                                  [ pc |-> "queued", client |-> d.client,
                                    entry |-> EntryOf(d.modules, module_id),
                                    s1 |-> CLOSED, s2 |-> CLOSED, s2ok |-> FALSE,
                                    closed |-> FALSE,      \* the task closed the client
                                    modclosed |-> FALSE ]] \* the module closed the client
                  /\ cl' = [cl EXCEPT ![c].state = "dispatched",
                                      ![c].ntasks = cl[c].ntasks + 1]
                  /\ d' = [d EXCEPT !.pc = "poll"]
             ELSE /\ tasks' = tasks
                  /\ cl' = [CountClose(d.fdt[d.client]) EXCEPT ![c].state = "rejected"]
                  /\ d' = [d EXCEPT !.fdt = DaemonClose(d.fdt, d.client),
                                    !.misclosed = d.misclosed + 1 - Closed(c, d.fdt[d.client]),
                                    !.pc = "poll"]
    /\ UNCHANGED <<appVars, ctl>>

(* ---- a task, 281-294, and the module code it runs ---- *)

\* fstat on a descriptor that names nothing fails and leaves the buffer as it was
Stat(fd) == d.fdt[fd]

\* 283: fstat(client, &s1), its result unchecked
TStat1 ==
    /\ Running
    /\ \E c \in Clients :
         /\ tasks[c].pc = "queued"
         /\ \E id \in (IF d.fdt[tasks[c].client] # CLOSED THEN {Stat(tasks[c].client)}
                       ELSE {Conn(b) : b \in Clients} \cup {<<"garbage">>}) :
              tasks' = [tasks EXCEPT ![c].s1 = id, ![c].pc = "stat1"]
    /\ UNCHANGED <<appVars, d, ctl, cl>>

\* 284: entry(client)
TEnter ==
    /\ Running
    /\ \E c \in Clients :
         /\ tasks[c].pc = "stat1"
         /\ tasks' = [tasks EXCEPT ![c].pc = "entry"]
         /\ cl' = [cl EXCEPT ![c].calls =
                      Append(cl[c].calls, [entry |-> tasks[c].entry, fd |-> tasks[c].client,
                                           file |-> d.fdt[tasks[c].client]])]
    /\ UNCHANGED <<appVars, d, ctl>>

\* the module's entry point closes the client descriptor it was given
ModClose ==
    /\ Running
    /\ \E c \in Clients :
         /\ tasks[c].pc = "entry" /\ ~tasks[c].modclosed
         /\ d.fdt[tasks[c].client] = Conn(c)
         /\ d' = [d EXCEPT !.fdt = CloseFd(d.fdt, tasks[c].client)]
         /\ cl' = CountClose(Conn(c))
         /\ tasks' = [tasks EXCEPT ![c].modclosed = TRUE]
    /\ UNCHANGED <<appVars, ctl>>

\* the module's entry point returns; one that never does stays in "entry"
ModReturn ==
    /\ Running
    /\ \E c \in Clients :
         /\ tasks[c].pc = "entry"
         /\ tasks' = [tasks EXCEPT ![c].pc = "returned"]
    /\ UNCHANGED <<appVars, d, ctl, cl>>

\* 289: fstat(client, &s2) == 0
TStat2 ==
    /\ Running
    /\ \E c \in Clients :
         /\ tasks[c].pc = "returned"
         /\ tasks' = [tasks EXCEPT ![c].s2ok = d.fdt[tasks[c].client] # CLOSED,
                                   ![c].s2 = Stat(tasks[c].client),
                                   ![c].pc = "stat2"]
    /\ UNCHANGED <<appVars, d, ctl, cl>>

SameFileAlways(s1, s2) == TRUE

\* 290: s1.st_dev == s2.st_dev && s1.st_ino == s2.st_ino
SameFile(s1, s2) == s1 = s2

\* 289-293: close(client) when fstat succeeded and the file is the same; s2
\* goes out of scope
TClose ==
    /\ Running
    /\ \E c \in Clients :
         /\ tasks[c].pc = "stat2"
         /\ IF tasks[c].s2ok /\ SameFile(tasks[c].s1, tasks[c].s2)
            THEN /\ d' = [d EXCEPT !.fdt = DaemonClose(d.fdt, tasks[c].client),
                                   !.misclosed = d.misclosed + 1
                                                 - Closed(c, d.fdt[tasks[c].client])]
                 /\ cl' = CountClose(d.fdt[tasks[c].client])
                 /\ tasks' = [tasks EXCEPT ![c].closed = TRUE, ![c].pc = "done",
                                           ![c].s2 = CLOSED, ![c].s2ok = FALSE]
            ELSE /\ d' = d /\ cl' = cl
                 /\ tasks' = [tasks EXCEPT ![c].pc = "done",
                                           ![c].s2 = CLOSED, ![c].s2ok = FALSE]
    /\ UNCHANGED <<appVars, ctl>>

DNext ==
    \/ DAuth \/ DRecvFds \/ DLoadModule \/ DAck
    \/ MagiskdSendClient \/ MagiskdHangup
    \/ DPollIn \/ DPollHup \/ DRecvClient \/ DServe
    \/ TStat1 \/ TEnter \/ ModClose \/ ModReturn \/ TStat2 \/ TClose

SpecDaemon == DInit /\ [][DNext]_vars

-----------------------------------------------------------------------------
(* What the specification says of an entry, stated without the code's scans *)

EqPositions(e) == {i \in 1..Len(e) : e[i] = "="}

\* an entry with a first '=' that is not its first character
WellFormed(e) == EqPositions(e) # {} /\ 1 \notin EqPositions(e)

FirstEq(e) == CHOOSE i \in EqPositions(e) : \A j \in EqPositions(e) : i <= j

NameOf(e) == SubSeq(e, 1, FirstEq(e) - 1)

ValueOf(e) == SubSeq(e, FirstEq(e) + 1, Len(e))

DenyListed(e) == NameOf(e) \in Range(UNSAFE_VARIABLE_NAMES)

Survives(e) == WellFormed(e) /\ ~DenyListed(e)

IsStrictPrefix(a, b) == Len(a) < Len(b) /\ SubSeq(b, 1, Len(a)) = a

-----------------------------------------------------------------------------
(* C8: applying the sanitizer twice leaves the same sequence of entries    *)
(* (and the same block) as applying it once.                               *)
C8_SanitizeIdempotent ==
    calls = 2 => (Record(environ) = Record(once) /\ environ = once)

\* the first application removed something and kept something
C8_Witness ==
    /\ calls = 2
    /\ Len(Record(once)) > 0
    /\ Len(Record(once)) < Len(Record(env0))

(* C9: a well-formed entry is removed if and only if the text before its   *)
(* first '=' is exactly a deny-listed name, whatever its value; a name     *)
(* that extends a deny-listed name, is a strict prefix of one, or differs  *)
(* in case is kept.                                                        *)
C9_RemovedIffDenyListed ==
    calls >= 1 =>
        \A e \in Range(Record(env0)) :
            WellFormed(e) => ((e \notin Range(Record(once))) <=> DenyListed(e))

\* one block holding a deny-listed entry with an empty value (removed), an
\* entry whose name extends a deny-listed name and one whose name is a strict
\* prefix of a deny-listed name (both kept)
C9_Witness ==
    /\ calls >= 1
    /\ \E e \in Range(Record(env0)) :
         WellFormed(e) /\ DenyListed(e) /\ ValueOf(e) = << >>
            /\ e \notin Range(Record(once))
    /\ \E e \in Range(Record(env0)) : \E dn \in Range(UNSAFE_VARIABLE_NAMES) :
         WellFormed(e) /\ IsStrictPrefix(dn, NameOf(e)) /\ e \in Range(Record(once))
    /\ \E e \in Range(Record(env0)) : \E dn \in Range(UNSAFE_VARIABLE_NAMES) :
         WellFormed(e) /\ IsStrictPrefix(NameOf(e), dn) /\ e \in Range(Record(once))

(* C10: every entry is judged on its own: the block after sanitizing holds *)
(* exactly the well-formed, safe entries of the original block, unchanged  *)
(* and in their original order (entries without '=' or with '=' first are  *)
(* gone), and the null sentinel follows the last surviving entry.          *)
C10_FilterInOrder ==
    calls >= 1 =>
        LET kept == SelectSeq(Record(env0), Survives) IN
        /\ SubSeq(once, 1, Len(kept)) = kept
        /\ once[Len(kept) + 1] = NULL

\* an entry without '=', then one with '=' first, then a safe entry that survives
C10_Witness ==
    /\ calls >= 1
    /\ Len(Record(env0)) = 3
    /\ EqPositions(env0[1]) = {}
    /\ 1 \in EqPositions(env0[2])
    /\ Survives(env0[3])
    /\ Record(once) = <<env0[3]>>

-----------------------------------------------------------------------------
(* app_process_main, pool-manager branch *)

\* the SETUP exchange succeeded: status 0, a descriptor, and the path was read
SetupAnswered == p.pc # "none" /\ p.zygote /\ Did("read_string")

\* the SETUP exchange failed: no connection, a refusal, or no descriptor
SetupFailed ==
    /\ p.pc # "none" /\ p.zygote
    /\ \/ Did("request") /\ p.socket < 0
       \/ Did("read_status") /\ p.status # 0
       \/ Did("recv_fd") /\ p.app_proc_fd < 0

\* LD_PRELOAD as claimed: the old value, ':' and the hijack path, or the hijack
\* path alone when there was none
PreloadAsClaimed(env) ==
    getenv(env \o <<NULL>>, LD_PRELOAD) =
        IF getenv(env0, LD_PRELOAD) = NULL THEN HIJACK_BIN
        ELSE getenv(env0, LD_PRELOAD) \o <<":">> \o HIJACK_BIN

EnvAsClaimed(env) ==
    /\ PreloadAsClaimed(env)
    /\ getenv(env \o <<NULL>>, MAGISKTMP_ENV) = p.tmp
    /\ \A e \in Range(env) : WellFormed(e) /\ ~DenyListed(e)

LastTry == p.tries[Len(p.tries)]

(* C1 as stated: once SETUP was answered with status 0, a descriptor and a *)
(* path, whenever the process replaces its image the environment is as     *)
(* claimed and the image executed is the descriptor magiskd passed.        *)
C1_AsStated ==
    (SetupAnswered /\ Replaced) =>
        (EnvAsClaimed(LastTry.env) /\ LastTry.file = p.sent)

(* C1 as amended: once SETUP was answered with status 0, a descriptor and  *)
(* a path P, at the moment the process attempts the image replacement from *)
(* the received descriptor (fexecve) LD_PRELOAD holds the hijack path      *)
(* (after the old value and ':' when there was one), the runtime-directory *)
(* variable is P, no entry is ill-formed or deny-listed, and the image     *)
(* that call executes is the descriptor magiskd passed; the process gets   *)
(* there unless writing the context label aborts it, and only when that    *)
(* call fails does it re-exec its own on-disk image, with the environment  *)
(* as mutated.                                                             *)
C1_SetupExec ==
    SetupAnswered =>
        /\ \A i \in 1..Len(p.tries) :
              IF p.tries[i].call = "fexecve"
              THEN /\ i = 1
                   /\ p.tries[i].file = p.sent /\ p.sent \in TargetFiles
                   /\ EnvAsClaimed(p.tries[i].env)
              ELSE /\ i = 2 /\ ~p.tries[1].ok
                   /\ p.tries[i].file = SELF_EXE
                   /\ p.tries[i].env = p.tries[1].env
        /\ p.pc \in {"z_close2", "fallback", "replaced", "returned"} => Len(p.tries) >= 1

\* the image was replaced from the descriptor; the block had an LD_PRELOAD,
\* a deny-listed entry and an ill-formed one
C1_Witness ==
    /\ SetupAnswered /\ Replaced /\ LastTry.call = "fexecve"
    /\ getenv(env0, LD_PRELOAD) = <<"/", "a">>
    /\ \E e \in Range(Record(env0)) : WellFormed(e) /\ DenyListed(e)
    /\ p.tmp = <<"/","d","a","t","a","/","x">>

(* C2: when the connection fails, the status is not 0 or no descriptor is  *)
(* received, the environment block and the context label stay as they were *)
(* (no setenv, no label write, no sanitizer run), the next steps are the   *)
(* fallback's, and the fallback detaches the overlay and executes the      *)
(* process's own on-disk image with the original arguments and environment.*)
C2_FailureFallsBack ==
    SetupFailed =>
        /\ environ = env0 /\ calls = 0 /\ p.con = p.con0
        /\ ~Did("setenv") /\ ~Did("set_context") /\ ~Did("sanitize")
        /\ p.pc \in {"z_close2", "fallback", "replaced", "returned"}
        /\ p.pc \in {"replaced", "returned"} =>
              /\ ~p.overlay
              /\ Len(p.tries) = 1
              /\ p.tries[1].call = "execve" /\ p.tries[1].file = SELF_EXE
              /\ p.tries[1].argv = p.argv /\ p.tries[1].env = Record(env0)

\* a refused SETUP ended in the process's own image
C2_Witness ==
    /\ SetupFailed /\ p.status = 1 /\ p.overlay = FALSE
    /\ Replaced /\ Image = SELF_EXE
    /\ Len(Record(env0)) > 0

-----------------------------------------------------------------------------
(* The passthrough helper *)

HelperRan == h.pc \notin {"none", "execlp", "main"} /\ h.client >= 0

IsInt(m) == m.kind = "int"
IsFd(m) == m.kind = "fd"

(* C3: the helper writes at most one status to the client and it is the    *)
(* first thing written; when it has finished it has written exactly        *)
(* status 1 and nothing else if the connection failed or magiskd answered  *)
(* non-zero, and status 0 followed by the one descriptor it received from  *)
(* magiskd if magiskd answered 0.                                          *)
C3_HelperStatusThenFd ==
    HelperRan =>
        /\ Len(SelectSeq(h.wrote, IsInt)) <= 1
        /\ Len(SelectSeq(h.wrote, IsFd)) <= 1
        /\ h.wrote # << >> => IsInt(h.wrote[1])
        /\ h.pc \in {"recv", "send"} => h.wrote = <<IntMsg(0)>>
        /\ h.pc \in {"exit", "dead"} =>
              IF h.magiskd >= 0 /\ h.status = 0
              THEN h.wrote = <<IntMsg(0), FdMsg(h.got)>>
              ELSE h.wrote = <<IntMsg(1)>>

\* magiskd answered 0 and passed a descriptor; the helper relayed it and ended
C3_Witness ==
    /\ h.pc = "dead" /\ h.client >= 0 /\ h.status = 0 /\ h.is_64_bit = 1
    /\ h.got \in TargetFiles
    /\ h.wrote = <<IntMsg(0), FdMsg(h.got)>>

-----------------------------------------------------------------------------
(* app_process_main, the branch that is not the pool manager *)

NotPoolManager == p.pc \notin {"none", "classify"} /\ ~p.zygote

Count(seq, x) == Cardinality({i \in 1..Len(seq) : seq[i] = x})

(* C4: the parent attempts an image replacement only after reading status  *)
(* 0 and receiving a valid descriptor, and then from that descriptor; on a *)
(* non-zero status, a disconnection (also of a helper that wrote nothing   *)
(* or never existed) or a failed descriptor receive it returns 1 with no   *)
(* image replacement; it forks, reads the status and receives at most once.*)
C4_ParentExecOnlyOnSuccess ==
    NotPoolManager =>
        /\ p.tries # << >> =>
              /\ Len(p.tries) = 1 /\ p.tries[1].call = "fexecve"
              /\ p.status = 0 /\ Did("read_status")
              /\ p.app_proc_fd >= 0 /\ p.sent \in TargetFiles
              /\ p.tries[1].file = p.sent
        /\ (Did("read_status") /\ p.status # 0) =>
              (p.pc = "returned" /\ p.ret = 1 /\ p.tries = << >> /\ ~Did("recv_fd"))
        /\ (Did("recv_fd") /\ p.app_proc_fd < 0) =>
              (p.pc = "returned" /\ p.ret = 1 /\ p.tries = << >>)
        /\ p.forks <= 1
        /\ Count(p.steps, "read_status") <= 1 /\ Count(p.steps, "recv_fd") <= 1
        /\ p.pc = "returned" => p.ret = 1

\* the helper ended without writing anything and the parent returned 1
C4_Witness ==
    /\ NotPoolManager /\ h.pc = "dead" /\ h.wrote = << >>
    /\ p.pc = "returned" /\ p.ret = 1 /\ p.status = -1 /\ p.tries = << >>

-----------------------------------------------------------------------------
(* The daemon's clients, as the claims speak of them *)

Served(c) == cl[c].state \in {"dispatched", "rejected"}

\* the id the client wrote indexes a populated slot of the registry
Populated(c) ==
    /\ cl[c].val >= 0 /\ cl[c].val < Len(d.modules)
    /\ d.modules[cl[c].val + 1] # 0

TaskPast(c, pcs) == tasks[c].pc \in pcs

-----------------------------------------------------------------------------
(* C5: a task of the daemon closes its client's descriptor number after     *)
(* the entry point has returned only while the number still names the       *)
(* connection whose identity was recorded before the call; when the module  *)
(* has closed the descriptor, whether the number is free or names a later   *)
(* connection, the task closes nothing.  So no connection is closed twice   *)
(* and no close of the daemon hits a connection other than its own          *)
(* client's.                                                                *)
C5_CloseOnlySameFile ==
    /\ d.misclosed = 0
    /\ \A c \in Clients :
         /\ cl[c].state # "unsent" => cl[c].closes <= 1
         /\ tasks[c].pc \in {"stat1", "entry", "returned", "stat2", "done"}
              => tasks[c].s1 = Conn(c)
         /\ (tasks[c].pc = "stat2" /\ tasks[c].modclosed)
              => (~tasks[c].s2ok \/ tasks[c].s2 # tasks[c].s1)
         /\ tasks[c].pc = "done"
              => /\ tasks[c].closed <=> ~tasks[c].modclosed
                 /\ cl[c].closes = 1

\* the module closed the descriptor, the number went to a later client, and
\* the task finished without closing it: the later connection is still open
C5_Witness ==
    \E c \in Clients, b \in Clients :
        /\ b # c
        /\ tasks[c].pc = "done" /\ tasks[c].modclosed /\ ~tasks[c].closed
        /\ cl[b].state \in {"received", "dispatched"}
        /\ cl[b].fd = tasks[c].client
        /\ d.fdt[tasks[c].client] = Conn(b)
        /\ cl[b].closes = 0 /\ cl[c].closes = 1

-----------------------------------------------------------------------------
(* C6: a client whose module id is negative, not less than the size of the  *)
(* registry, or the index of an empty slot is closed exactly once, gets no  *)
(* task and no entry-point invocation, and the loop goes back to poll for   *)
(* the next client.                                                         *)
C6_InvalidIdClosed ==
    /\ [](\A c \in Clients :
            /\ (Served(c) /\ ~Populated(c)) => cl[c].state = "rejected"
            /\ cl[c].state = "rejected"
                 => /\ ~Populated(c)
                    /\ cl[c].closes = 1 /\ cl[c].ntasks = 0
                    /\ cl[c].calls = << >> /\ tasks[c] = NoTask)
    /\ [][\A c \in Clients :
            (cl[c].state = "received" /\ cl'[c].state = "rejected")
                => (d'.pc = "poll" /\ d'.fdt[d.client] = CLOSED
                    /\ d'.modules = d.modules /\ d'.fdt[d.socket] = Ctl)]_vars

\* a client naming an empty slot was closed, and the next client was received
C6_Witness ==
    \E c \in Clients, b \in Clients :
        /\ c < b
        /\ cl[c].state = "rejected" /\ cl[c].closes = 1
        /\ cl[c].val >= 0 /\ cl[c].val < Len(d.modules)
        /\ d.modules[cl[c].val + 1] = 0
        /\ cl[b].state \in {"received", "dispatched", "rejected"}

-----------------------------------------------------------------------------
(* C7: a client whose module id indexes a populated slot gets exactly one   *)
(* task, and that task invokes that slot's entry point, and no other, at    *)
(* most once, exactly once from the moment it reaches the call, with that   *)
(* client's descriptor; so N clients in flight for N populated ids have N   *)
(* invocations, one each, each with its own descriptor.                     *)
C7_OneInvocationPerClient ==
    \A c \in Clients :
        /\ (Served(c) /\ Populated(c))
             => /\ cl[c].state = "dispatched" /\ cl[c].ntasks = 1
                /\ tasks[c] # NoTask
                /\ Len(cl[c].calls) <= 1
                /\ TaskPast(c, {"entry", "returned", "stat2", "done"})
                     => Len(cl[c].calls) = 1
                /\ TaskPast(c, {"queued", "stat1"}) => cl[c].calls = << >>
        /\ (cl[c].state # "unsent" /\ cl[c].calls # << >>)
             => /\ Populated(c)
                /\ cl[c].calls[1].entry = d.modules[cl[c].val + 1]
                /\ cl[c].calls[1].fd = cl[c].fd
                /\ cl[c].calls[1].file = Conn(c)

\* two clients of two different populated slots are inside their entry points
\* at the same time, each with its own descriptor
C7_Witness ==
    \E c \in Clients, b \in Clients :
        /\ c # b
        /\ tasks[c].pc = "entry" /\ tasks[b].pc = "entry"
        /\ cl[c].val # cl[b].val
        /\ Len(cl[c].calls) = 1 /\ Len(cl[b].calls) = 1
        /\ cl[c].calls[1].entry # cl[b].calls[1].entry
        /\ cl[c].calls[1].fd # cl[b].calls[1].fd

-----------------------------------------------------------------------------
(* C11: a daemon started by an identity other than root, or with a control  *)
(* descriptor that is not open, exits at its first step with status -1: it  *)
(* has received no module descriptor, built no registry slot, written no    *)
(* acknowledgment and received no client, and it does nothing afterwards.   *)
C11_UnauthorizedExits ==
    /\ [](d.code = "exit(-1)"
            => /\ d.pc = "exited"
               /\ d.module_fds = << >> /\ d.modules = << >>
               /\ ctl.acks = << >> /\ ctl.q = << >>
               /\ \A n \in FdNums : d.fdt[n] = CLOSED
               /\ \A c \in Clients : cl[c].state = "unsent" /\ tasks[c] = NoTask)
    /\ [][(d.pc = "auth" /\ (d.uid # 0 \/ d.fdt[d.socket] # Ctl))
            => (d'.pc = "exited" /\ d'.code = "exit(-1)" /\ ctl' = ctl /\ cl' = cl)]_vars
    /\ [][d.code = "exit(-1)" => d' = d /\ ctl' = ctl /\ cl' = cl /\ tasks' = tasks]_vars

\* root started the daemon with a closed control descriptor while magiskd had
\* module files to pass, and the daemon has exited
C11_Witness ==
    /\ d.pc = "exited" /\ d.code = "exit(-1)"
    /\ d.uid = 0
    /\ ctl.batch # << >>

-----------------------------------------------------------------------------
(* The daemon's startup, as the claims speak of it *)

InLoop == d.pc \in {"poll", "recv_fd", "read_id"}

\* the step adds a slot to the registry
SlotAdded == Len(d'.modules) = Len(d.modules) + 1

\* the module file the next slot is built from
NextModuleFile == d.fdt[d.module_fds[Len(d.modules) + 1]]

Loadable(file) == file[1] = "module" /\ file[3] = "ok"

-----------------------------------------------------------------------------
(* C12: the daemon writes the acknowledgment 0 on the control connection at *)
(* most once, and exactly once before the service loop; it writes it only   *)
(* when the registry has a slot for every module descriptor received, and   *)
(* before any client is passed; a module that is not loadable or lacks the  *)
(* symbol gets an empty slot, and the loop over the modules and the         *)
(* acknowledgment go on after it.                                           *)
C12_AckOnceAfterRegistry ==
    /\ [](/\ ctl.acks \in {<< >>, <<0>>}
          /\ InLoop => ctl.acks = <<0>>
          /\ d.pc \in {"auth", "recv_fds", "load"} => ctl.acks = << >>
          /\ (ctl.q # << >> \/ \E c \in Clients : cl[c].state # "unsent")
                => ctl.acks = <<0>>
          /\ d.pc = "load" => (ENABLED DLoadModule \/ ENABLED DAck))
    /\ [][ctl'.acks # ctl.acks
            => /\ ctl.acks = << >> /\ ctl'.acks = <<0>>
               /\ d.pc = "load" /\ Len(d.modules) = Len(d.module_fds)
               /\ d'.pc = "poll" /\ d'.modules = d.modules
               /\ \A c \in Clients : cl[c].state = "unsent"]_vars
    /\ [][SlotAdded
            => /\ d.pc = "load" /\ d'.pc = "load"
               /\ SubSeq(d'.modules, 1, Len(d.modules)) = d.modules
               /\ Loadable(NextModuleFile) <=> d'.modules[Len(d'.modules)] # 0]_vars

\* the first module failed, the second was loaded after it, and the
\* acknowledgment was written
C12_Witness ==
    /\ ctl.acks = <<0>>
    /\ Len(d.modules) = 2
    /\ d.modules[1] = 0 /\ d.modules[2] # 0

-----------------------------------------------------------------------------
(* C13: in the service loop, when poll reports events without POLLIN, or    *)
(* when recv_fd on the control connection fails, the daemon exits with      *)
(* status 0; it goes on to recv_fd only with POLLIN reported, it dispatches *)
(* no client once the control connection is lost, and after the exit        *)
(* nothing of the daemon runs.                                              *)
C13_LostControlTerminates ==
    /\ [](/\ d.pc = "recv_fd" => "POLLIN" \in d.revents
          /\ (ctl.hup /\ d.pc # "read_id") => d.pc \in {"recv_fd", "exited"}
          /\ d.pc = "exited"
               => /\ \A n \in FdNums : d.fdt[n] = CLOSED
                  /\ \A c \in Clients : tasks[c].pc \in {"none", "done", "killed"})
    /\ [][d.pc = "poll" /\ d'.pc # "poll"
            => \/ d'.pc = "recv_fd" /\ "POLLIN" \in d'.revents
               \/ d'.pc = "exited" /\ d'.code = "exit(0)"]_vars
    /\ [][d.pc = "recv_fd" /\ d'.pc # "recv_fd" /\ (ctl.q = << >> \/ d'.pc # "read_id")
            => /\ d'.pc = "exited" /\ d'.code = "exit(0)"
               /\ \A c \in Clients : cl'[c].state \notin {"received", "dispatched"}
                                       \/ cl'[c].state = cl[c].state]_vars
    /\ [][\A c \in Clients :
            (cl'[c].state = "dispatched" /\ cl[c].state # "dispatched") => ~ctl.hup]_vars
    /\ [][d.pc = "exited" => d' = d /\ cl' = cl /\ tasks' = tasks /\ ctl' = ctl]_vars

\* the control connection hung up while a task was running and a client had
\* not been passed yet: the daemon has exited and the task is gone with it
C13_Witness ==
    /\ d.pc = "exited" /\ d.code = "exit(0)" /\ ctl.hup
    /\ \E c \in Clients : cl[c].state = "dispatched" /\ tasks[c].pc = "killed"
    /\ \E c \in Clients : cl[c].state = "unsent"

-----------------------------------------------------------------------------
(* C14: a process that is not the pool manager, and its helper, leave the   *)
(* environment and the security-context label as they were: the block and   *)
(* its entries (LD_PRELOAD and the runtime-directory variable among them)   *)
(* are unchanged, the sanitizer is never called, and an image replacement   *)
(* by the parent is given the arguments and the environment the process was *)
(* entered with.                                                            *)
C14_PassthroughFrame ==
    /\ [](~p.zygote /\ p.pc # "none"
            => /\ environ = env0
               /\ getenv(environ, LD_PRELOAD) = getenv(env0, LD_PRELOAD)
               /\ getenv(environ, MAGISKTMP_ENV) = getenv(env0, MAGISKTMP_ENV)
               /\ calls = 0 /\ ~Did("sanitize") /\ ~Did("setenv") /\ ~Did("set_context")
               /\ p.con = p.con0
               /\ \A i \in 1..Len(p.tries) :
                    /\ p.tries[i].argv = p.argv
                    /\ p.tries[i].env = Record(env0)
                    /\ p.tries[i].con = p.con0)
    /\ [][h' # h => environ' = environ /\ calls' = calls
                    /\ p'.con = p.con /\ p'.argv = p.argv]_vars

\* the parent replaced its image after the helper's relay, with an environment
\* that holds entries the sanitizer would have removed
C14_Witness ==
    /\ NotPoolManager /\ HelperRan /\ Replaced
    /\ LastTry.call = "fexecve"
    /\ LastTry.env = Record(env0)
    /\ Record(sanitize_environment_variables(env0)) # Record(env0)
    /\ getenv(env0, LD_PRELOAD) # NULL

-----------------------------------------------------------------------------
(* The order of the steps of app_process_main *)

PoolSuccess == p.pc = "replaced" /\ p.zygote /\ LastTry.call = "fexecve"

\* the positions of a step in the history
At(l) == {i \in 1..Len(p.steps) : p.steps[i] = l}

\* a happened, b happened, and every a precedes every b
Before(a, b) ==
    /\ At(a) # {} /\ At(b) # {}
    /\ \A i \in At(a), j \in At(b) : i < j

-----------------------------------------------------------------------------
(* C15: on the path of the pool manager that ends in the image replacement  *)
(* from the received descriptor, the steps are, in this order: the reads    *)
(* from the daemon (status, descriptor, runtime path), the insertion of     *)
(* LD_PRELOAD and of the runtime-directory variable, the close of the       *)
(* daemon connection, the write of the security-context label, the          *)
(* sanitizer, the image replacement.  The sanitizer runs once, with the     *)
(* daemon connection already closed, and the step after it is the image     *)
(* replacement.                                                             *)
C15_SetupOrder ==
    /\ PoolSuccess
         => /\ Before("read_status", "recv_fd") /\ Before("recv_fd", "read_string")
            /\ Before("read_string", "setenv") /\ Before("setenv", "close_socket")
            /\ Before("close_socket", "set_context")
            /\ Before("set_context", "sanitize") /\ Before("sanitize", "fexecve")
            /\ \A l \in Range(p.steps) : Cardinality(At(l)) = 1
            /\ p.steps[Len(p.steps)] = "fexecve"
    /\ (p.pc # "none" /\ p.zygote)
         => /\ calls <= 1
            /\ Cardinality(At("sanitize")) = calls
            /\ \A i \in At("sanitize") :
                 /\ ~Holds(p.fdt, <<"setup_sock">>)
                 /\ \A j \in At("request") \cup At("read_status") \cup At("send_loader")
                           \cup At("recv_fd") \cup At("read_string") : j < i
                 /\ i < Len(p.steps) => p.steps[i + 1] = "fexecve"

\* the pool manager became the target binary with the label written and the
\* environment changed
C15_Witness ==
    /\ PoolSuccess
    /\ p.con = INIT_CON /\ p.con0 # INIT_CON
    /\ calls = 1
    /\ Record(environ) # Record(env0)
    /\ Len(p.steps) = 11

-----------------------------------------------------------------------------
(* C16: while the entry point of a dispatched module has not returned, the  *)
(* loop is held up by it nowhere: it can take a waiting client from poll,   *)
(* receive it, and dispatch or reject a client that has written its id;     *)
(* and the descriptor of the task that has not returned stays the task's    *)
(* own connection: no step of the loop or of another task closes it.        *)
C16_StalledTaskAlone ==
    /\ [](\A c \in Clients :
            (tasks[c].pc = "entry" /\ Running)
              => /\ (d.pc = "poll" /\ ctl.q # << >>) => ENABLED DPollIn
                 /\ d.pc = "recv_fd" => ENABLED DRecvClient
                 /\ (d.pc = "read_id" /\ cl[ClientOf(d.client)].does = "writes")
                      => ENABLED DServe
                 /\ ~tasks[c].modclosed
                      => /\ d.fdt[tasks[c].client] = Conn(c)
                         /\ cl[c].closes = 0)
    /\ [][\A c \in Clients :
            (tasks[c].pc = "entry" /\ ~tasks[c].modclosed /\ tasks'[c] = tasks[c]
               /\ d'.pc # "exited")
              => /\ d'.fdt[tasks[c].client] = d.fdt[tasks[c].client]
                 /\ cl'[c].closes = cl[c].closes]_vars

\* the first client's entry point has not returned; the second client was
\* received, dispatched and finished meanwhile, and the loop is back in poll
C16_Witness ==
    /\ d.pc = "poll"
    /\ tasks[1].pc = "entry" /\ ~tasks[1].modclosed
    /\ d.fdt[tasks[1].client] = Conn(1)
    /\ tasks[2].pc = "done" /\ tasks[2].closed
    /\ cl[2].fd > cl[1].fd

-----------------------------------------------------------------------------
(* C17: the registry gets one slot per module descriptor received, slot i   *)
(* built from the i-th descriptor in the order of arrival; a descriptor     *)
(* that is no regular file, does not load or lacks the symbol fills its     *)
(* slot with the empty entry, so the slots after it keep their ids; once    *)
(* the service loop has started the registry never changes.                 *)
C17_RegistryFixed ==
    /\ [](/\ \A i \in 1..Len(d.modules) : d.modules[i] \in {0, i}
          /\ d.pc = "load"
               => /\ Len(d.modules) <= Len(d.module_fds)
                  /\ \A i \in (Len(d.modules) + 1)..Len(d.module_fds) :
                       /\ d.fdt[d.module_fds[i]][1] = "module"
                       /\ d.fdt[d.module_fds[i]][2] = i)
    /\ [][(d.pc = "recv_fds" /\ d'.pc = "load")
            => /\ d'.modules = << >>
               /\ Len(d'.module_fds) \in {0, Len(ctl.batch)}
               /\ \A i \in 1..Len(d'.module_fds) :
                    d'.fdt[d'.module_fds[i]] = ModFile(i, ctl.batch[i])]_vars
    /\ [][d'.modules # d.modules
            => /\ d.pc = "load"
               /\ d'.modules = Append(d.modules,
                                      IF Loadable(NextModuleFile) THEN Len(d.modules) + 1
                                      ELSE 0)]_vars
    /\ [][(d.pc = "load" /\ d'.pc # "load")
            => /\ Len(d.modules) = Len(d.module_fds)
               /\ d'.modules = d.modules]_vars
    /\ [][d.pc \notin {"auth", "recv_fds", "load"} => d'.modules = d.modules]_vars

\* the first of two modules left its slot empty; a client that wrote id 1 is
\* inside the entry point of the second module
C17_Witness ==
    /\ d.modules = <<0, 2>>
    /\ \E c \in Clients :
         /\ cl[c].state = "dispatched" /\ cl[c].val = 1
         /\ tasks[c].pc = "entry" /\ tasks[c].entry = 2

-----------------------------------------------------------------------------
(* C18 as stated: with every exchange with magiskd and with the helper      *)
(* returning, app_process_main goes on until it has ended in one of three   *)
(* ways, and takes no step twice: its image is replaced by the target       *)
(* binary, its image is replaced by its own on-disk image, or it returns 1. *)
Ended == p.pc \in {"replaced", "returned"}

C18_AsStated ==
    p.pc # "none"
      => /\ Ended \/ ENABLED AppNext
         /\ p.pc = "replaced" => (LastTry.file \in TargetFiles \/ LastTry.file = SELF_EXE)
         /\ p.pc = "returned" => p.ret = 1
         /\ \A l \in {"classify", "request", "read_status", "send_loader", "recv_fd",
                      "read_string", "setenv", "set_context", "sanitize", "fexecve",
                      "self_exec", "fork", "close_fds1"} : Cardinality(At(l)) <= 1

\* the pool manager has stopped after the label write, neither replaced nor
\* returned
C18_Stopped ==
    /\ p.pc \notin {"none", "replaced", "returned"}
    /\ ~ENABLED AppNext
    /\ p.zygote /\ Did("set_context") /\ ~Did("sanitize")

-----------------------------------------------------------------------------
(* C19 as stated: on every path of the pool manager, the one on which the   *)
(* image replacement from the received descriptor fails included, close is  *)
(* called on the descriptor of the SETUP connection at most once.           *)
C19_AsStated ==
    (p.pc # "none" /\ p.zygote) => p.closes <= 1

\* the image replacement failed and the descriptor number, closed before it,
\* was closed again on the way to the fallback
C19_ClosedTwice ==
    /\ p.pc = "fallback" /\ p.zygote
    /\ Len(p.tries) = 1 /\ LastTry.call = "fexecve" /\ ~LastTry.ok
    /\ Cardinality(At("close_socket")) = 2
    /\ p.closes = 2

-----------------------------------------------------------------------------
(* C20 as stated: whatever a received client does, the service loop is not  *)
(* held by it: while the daemon runs, a client that magiskd has passed can  *)
(* be taken by the loop, and a hang-up of the control connection can end    *)
(* the daemon; that is, with either of them pending the loop has a step to  *)
(* take.                                                                    *)
LoopStep == DPollIn \/ DPollHup \/ DRecvClient \/ DServe

C20_AsStated ==
    (InLoop /\ (ctl.q # << >> \/ ctl.hup)) => ENABLED LoopStep

\* the loop is in read_int on a client that writes nothing, while a later
\* client waits on the control connection and magiskd has hung up
C20_Held ==
    /\ d.pc = "read_id"
    /\ cl[ClientOf(d.client)].does = "silent"
    /\ ctl.q # << >> /\ ctl.hup
    /\ ~ENABLED LoopStep
    /\ d.code = "running"

====
